---- MODULE Spec2Model ----
(***************************************************************************)
(* Model of the xsum hashing engine of ophymx/utils:                       *)
(*   - serverImpl.Parallel (producer, worker pool, result consumer),       *)
(*   - hashFile and the MultiDigest (hashImpl) it streams the file into,   *)
(*   - the xattr-backed cache (xattrCache over attrutil.osXattr).          *)
(* Spec and FairSpec are one call of Parallel on a built engine.           *)
(* EngineSpec is the life cycle of an engine: NewServer, NumberOfWorkers,  *)
(* NewHash and the Hash methods, Close. CloseSpec is Close run on any      *)
(* list of release steps.                                                  *)
(* RunsSpec is xsum run several times on the same file, which may be       *)
(* rewritten between two runs.                                             *)
(* Anonymous worker goroutines are kept as a bag of local states.          *)
(* Dotted Go strings ("user.xsum.time") are sequences of components.       *)
(* Byte strings are tagged tuples: a digest is <<algorithm, input>>, an    *)
(* encoded time is <<"le64", seconds>>; the absent value is << >>.         *)
(***************************************************************************)
EXTENDS Bags, FiniteSets, Integers, Sequences, TLC

\* ---------------------------------------------------------------- bounds
MaxFiles    == 2    \* longest file list handed to Parallel
TicksPerSec == 2    \* clock resolution: ticks per second of time.Time
MaxTicks    == 1    \* clock ticks that may pass during the run
MaxEvents   == 1    \* failed system calls and concurrent file modifications during the run
ContentBase == 4    \* radix of the encoding of accumulated hash input
MaxIds      == 3    \* longest identifier list handed to NewServer
MaxOps      == 3    \* calls made on the Hash objects of one engine
MaxCloses   == 2    \* calls of Close on one engine
MaxClosers  == 3    \* longest list of release steps Close is run on
MaxRuns     == 3    \* runs of Parallel made one after the other on the same files
MaxEdits    == 1    \* modifications of a file made between such runs

\* ------------------------------------------------------- program constants
MaxWorkers  == 16

AllAlgs  == {"md5", "sha256"}
Paths    == {"a", "b"}
CpuCounts == {8, 34}

\* the identifiers NewServer knows, and what a caller may hand it
Known      == {"md5", "sha256", "sha1", "sha512"}
Idents     == Known \cup {"crc32", "adler32"}
IdLists    == UNION { [1..n -> Idents] : n \in 0..MaxIds }
\* processor counts around the thresholds of NumberOfWorkers
AnyCpuCounts == CpuCounts \cup {1, 2, MaxWorkers, MaxWorkers + 1}

NoVal == << >>
NoErr == "nil"

\* ------------------------------------------------------------ digest maps
\* map[string][]byte: nil flag plus the value of every key (NoVal = no key)
EmptyM  == [a \in Known |-> NoVal]
NilSums == [nil |-> TRUE, m |-> EmptyM]
Keys(sums) == {a \in Known : sums.m[a] # NoVal}

\* ---------------------------------------------------------- MultiDigest
Digest(a, data) == <<a, data>>

NewHash(algs) == [a \in algs |-> 0]

Write(h, p) == [a \in DOMAIN h |-> h[a] * ContentBase + p]

\* a Write that returns at a failing primitive: only the primitives the
\* map iteration has visited before it, done, have taken p
WritePart(h, p, done) == [a \in DOMAIN h |-> IF a \in done THEN h[a] * ContentBase + p ELSE h[a]]

Reset(h) == [a \in DOMAIN h |-> 0]

\* mutant: the map gets a key for every algorithm NewServer knows
MultiSumAll(h) ==
    [nil |-> FALSE,
     m   |-> [a \in Known |-> IF a \in DOMAIN h THEN Digest(a, h[a]) ELSE Digest(a, 0)]]

MultiSum(h) ==
    [nil |-> FALSE,
     m   |-> [a \in Known |-> IF a \in DOMAIN h THEN Digest(a, h[a]) ELSE NoVal]]

\* ------------------------------------------------------------ the engine
\* an error value: nil, or the parts of its message
NilError == [nil |-> TRUE, msg |-> << >>]
Errorf(parts) == [nil |-> FALSE, msg |-> parts]

NoServer == [algorithms |-> {}, closers |-> << >>, resources |-> << >>]

\* the loop of NewServer over the identifiers from position i on. A release
\* step is [res, ret]: the resource it closes and the error it returns.
RECURSIVE NewServerFrom(_, _, _, _)
NewServerFrom(list, i, avx, srv) ==
    IF i > Len(list)
    THEN [ok |-> TRUE, err |-> NilError, algorithms |-> srv.algorithms,
          closers |-> srv.closers, resources |-> srv.resources]
    ELSE LET id == list[i]
             with(a) == [srv EXCEPT !.algorithms = @ \cup {a}]
             made(kind) == Append(srv.resources, [kind |-> kind, released |-> 0])
         IN  IF id = "md5"
             THEN NewServerFrom(list, i + 1, avx,
                      [algorithms |-> srv.algorithms \cup {"md5"},
                       resources  |-> made("md5"),
                       closers    |-> Append(srv.closers,
                                             [res |-> Len(srv.resources) + 1,
                                              ret |-> NilError])])
             ELSE IF id = "sha256"
             THEN NewServerFrom(list, i + 1, avx,
                      IF avx THEN [with("sha256") EXCEPT !.resources = made("sha256avx512")]
                      ELSE with("sha256"))
             ELSE IF id \in {"sha1", "sha512"}
             THEN NewServerFrom(list, i + 1, avx, with(id))
             ELSE [ok |-> FALSE, err |-> Errorf(<<"unknown algorithm: ", id>>),
                   algorithms |-> {}, closers |-> << >>, resources |-> srv.resources]

\* mutant: identifiers NewServer does not know are skipped
NewServerSkipUnknown(list, avx) ==
    NewServerFrom(SelectSeq(list, LAMBDA id : id \in Known), 1, avx, NoServer)

NewServer(list, avx) == NewServerFrom(list, 1, avx, NoServer)

\* the loop of Close over the release steps from position i on
RECURSIVE RunClosersFrom(_, _, _, _)
RunClosersFrom(cs, i, err, invoked) ==
    IF i > Len(cs)
    THEN [err |-> err, invoked |-> invoked]
    ELSE LET err2 == cs[i].ret
             joined == IF err2.nil THEN err
                       ELSE IF err.nil THEN err2
                       ELSE Errorf(err.msg \o <<"; ">> \o err2.msg)
         IN  RunClosersFrom(cs, i + 1, joined, Append(invoked, i))

\* mutant: Close returns at the first release step that fails
RunClosersStopAtFirst(cs) ==
    LET bad == {i \in 1..Len(cs) : ~cs[i].ret.nil}
        last == IF bad = {} THEN Len(cs) ELSE CHOOSE i \in bad : \A j \in bad : i <= j
    IN  [err |-> IF bad = {} THEN NilError ELSE cs[last].ret,
         invoked |-> [i \in 1..last |-> i]]

RunClosers(cs) == RunClosersFrom(cs, 1, NilError, << >>)

\* ------------------------------------------------------------ attrutil
xsumNS      == <<"user", "xsum">>
ForeignName == <<"user", "mime">>
TimeKey     == <<"time">>
OSNames     == {xsumNS \o <<k>> : k \in AllAlgs \cup {"time"}} \cup {ForeignName}

name(ns, n) == IF ns = << >> THEN n ELSE IF n = << >> THEN ns ELSE ns \o n

\* strings.HasPrefix(key, prefix + ".")
HasDotPrefix(key, prefix) ==
    /\ Len(key) > Len(prefix)
    /\ SubSeq(key, 1, Len(prefix)) = prefix

XList(ns, store) ==
    LET allKeys == {k \in OSNames : store[k] # NoVal}
    IN  IF ns = << >> THEN allKeys
        ELSE {SubSeq(k, Len(ns) + 1, Len(k)) : k \in {x \in allKeys : HasDotPrefix(x, ns)}}

XGet(ns, store, n) == store[name(ns, n)]

XSet(ns, store, n, value) == [store EXCEPT ![name(ns, n)] = value]

XDeleteNS(ns, store, sub) ==
    LET keys   == XList(ns, store)
        prefix == name(ns, sub)
        doomed == {name(ns, k) : k \in {x \in keys : HasDotPrefix(x, prefix)}}
    IN  [n \in OSNames |-> IF n \in doomed THEN NoVal ELSE store[n]]

\* ------------------------------------------------------------ xattrCache
timeToBytes(t) == <<"le64", t \div TicksPerSec>>

timeFromBytes(b) == b[2] * TicksPerSec

GetFailures == {"none", "stat", "gettime", "list"}

\* fail: the system call that fails; drop: keys whose attrs.Get fails
xattrCacheGet(store, mt, fail, drop) ==
    LET b == XGet(xsumNS, store, TimeKey) IN
    IF fail = "stat"
    THEN [sums |-> NilSums, err |-> "stat", stale |-> FALSE, store |-> store]
    ELSE IF fail = "gettime" \/ b = NoVal
         THEN [sums |-> NilSums, err |-> "getxattr", stale |-> FALSE, store |-> store]
    ELSE IF mt > timeFromBytes(b)
         THEN [sums |-> NilSums, err |-> NoErr, stale |-> TRUE,
               store |-> XDeleteNS(xsumNS, store, << >>)]
    ELSE IF fail = "list"
         THEN [sums |-> NilSums, err |-> "listxattr", stale |-> FALSE, store |-> store]
    ELSE LET keys == XList(xsumNS, store) IN
         [sums  |-> [nil |-> FALSE,
                     m   |-> [a \in Known |->
                                IF <<a>> \in keys /\ a \notin drop
                                THEN XGet(xsumNS, store, <<a>>) ELSE NoVal]],
          err   |-> NoErr,
          stale |-> FALSE,
          store |-> store]

SetFailures == {"none", "alg", "time"}

\* fail: which attrs.Set fails; written: keys stored before the failing one
xattrCacheSet(store, sums, t, fail, written) ==
    LET put(ks) == [n \in OSNames |->
                      IF \E a \in ks : n = name(xsumNS, <<a>>)
                      THEN sums.m[CHOOSE a \in ks : n = name(xsumNS, <<a>>)]
                      ELSE store[n]]
    IN  IF fail = "alg"  THEN [err |-> "setxattr", store |-> put(written)]
        ELSE IF fail = "time" THEN [err |-> "setxattr", store |-> put(Keys(sums))]
        ELSE [err |-> NoErr,
              store |-> XSet(xsumNS, put(Keys(sums)), TimeKey, timeToBytes(t))]

\* ---------------------------------------------------------------- engine
\* mutant: the quotient itself, without the limits
NumberOfWorkersQuotient(cpus, algs) == cpus \div Cardinality(algs)

NumberOfWorkers(cpus, algs) ==
    LET num == cpus \div Cardinality(algs)
    IN  IF num > MaxWorkers THEN MaxWorkers ELSE 1

Missing(sums, algs) == \E a \in algs : sums.m[a] = NoVal

\* ------------------------------------------------------------------ state
VARIABLES
    algorithms,   \* srv.algorithms: the engine's algorithm set
    numCPU,       \* runtime.NumCPU()
    cache,        \* srv.cache: "xattr" (an xattrCache) or "nil"
    filenames,    \* the list handed to Parallel
    now,          \* wall clock when it was last read, in ticks
    events,       \* system calls failed and files modified during the run
    content,      \* path -> the file's bytes (a number)
    mtime,        \* path -> modification time, in ticks
    xattrs,       \* path -> extended attributes (OS name -> value)
    mainPc,       \* where the goroutine that called Parallel is
    fileChan,     \* buffered channel of jobs
    fileClosed,   \* close(fileChan) happened
    prodPos,      \* entries the producer has sent
    workers,      \* bag of the live workers' local states
    wg,           \* sync.WaitGroup counter
    resultClosed, \* close(resultChan) happened
    consPc,       \* where the result consumer is
    inCall,       \* onResult invocations in progress
    delivered,    \* the onResult invocations so far, in order
    hist,         \* per list entry: what was done for it (history)
    idList,       \* the identifiers handed to NewServer
    hasAvx512,    \* cpuid: AVX512 is supported
    srvState,     \* "none": NewServer not called yet, "built", "failed" (nil Server)
    closers,      \* srv.closers
    resources,    \* background servers created: kind and times released
    newErr,       \* the error NewServer returned
    numWorkers,   \* the last result of NumberOfWorkers
    hashObj,      \* the Hash the caller holds
    lastSums,     \* the last map MultiSum returned
    nops,         \* calls made on Hash objects
    lastWrite,    \* the last call of Write: digests before and after, error returned
    closeLog,     \* the calls of Close: steps registered, steps invoked, error returned
    runs          \* runs of Parallel completed before the current one

engine == <<idList, hasAvx512, srvState, closers, resources, newErr,
            numWorkers, hashObj, lastSums, nops, lastWrite, closeLog>>
inputs == <<algorithms, numCPU, cache, filenames, engine, runs>>
env    == <<now, events, content, mtime, xattrs>>
chans  == <<fileChan, fileClosed, prodPos, resultClosed>>
cons   == <<consPc, inCall, delivered>>
vars   == <<inputs, env, chans, cons, mainPc, workers, wg, hist>>

run    == <<cache, filenames, env, chans, cons, mainPc, workers, wg, hist, runs>>

Jobs == 1..Len(filenames)

NoHash    == [live |-> FALSE, from |-> {}, digests |-> << >>]
NotCalled == [called |-> FALSE, a |-> 0, n |-> 0, panic |-> FALSE]
NoSums    == [called |-> FALSE, sums |-> NilSums, from |-> {}]
NoWrite   == [called |-> FALSE, before |-> << >>, after |-> << >>, err |-> NilError]

Idle     == [pc |-> "recv", idx |-> 0, filename |-> "", sums |-> NilSums, err |-> NoErr]
NoHist   == [claims |-> 0, gets |-> 0, opens |-> 0, sets |-> 0,
             getRet |-> [sums |-> NilSums, err |-> "none", stale |-> FALSE],
             read   |-> 0,
             setArg |-> NilSums, setRet |-> "none"]

\* ------------------------------------------------------------ initial state
StartTime == 2 * TicksPerSec + 1
OldTime   == TicksPerSec

Attrs(algs, data, secs) ==
    [n \in OSNames |->
        IF n = ForeignName THEN <<"text", 0>>
        ELSE IF n = name(xsumNS, TimeKey)
             THEN (IF secs < 0 THEN NoVal ELSE timeToBytes(secs * TicksPerSec))
        ELSE IF \E a \in algs : n = name(xsumNS, <<a>>)
             THEN Digest(CHOOSE a \in algs : n = name(xsumNS, <<a>>), data)
        ELSE NoVal]

\* what earlier runs and edits can leave behind for one file
InitFiles ==
    { [content |-> 1, mtime |-> OldTime + 1, xattrs |-> Attrs({}, 0, -1)],          \* never hashed
      [content |-> 1, mtime |-> OldTime,     xattrs |-> Attrs(AllAlgs, 1, 1)],      \* hashed, all algorithms
      [content |-> 1, mtime |-> OldTime,     xattrs |-> Attrs({"md5"}, 1, 1)],      \* hashed, md5 only
      [content |-> 2, mtime |-> StartTime,   xattrs |-> Attrs(AllAlgs, 1, 1)] }     \* hashed, then modified

Untouched == [content |-> 1, mtime |-> OldTime + 1, xattrs |-> Attrs({}, 0, -1)]

\* the first file of the list starts in any of these states, a second file
\* never hashed or hashed for all algorithms
OtherFiles ==
    { Untouched,
      [content |-> 1, mtime |-> OldTime, xattrs |-> Attrs(AllAlgs, 1, 1)] }

\* file lists up to renaming of paths: the first entry is "a"
FileLists ==
    UNION { {f \in [1..n -> Paths] : n > 0 => f[1] = "a"} : n \in 0..MaxFiles }

Used(list) == {list[i] : i \in 1..Len(list)}

\* the identifier list an engine with algorithm set algs was built from
ListOf(algs) == CHOOSE l \in IdLists : Len(l) = Cardinality(algs) /\ Used(l) = algs

\* no call made yet on the engine or its Hash objects
Unused ==
    /\ numWorkers = NotCalled
    /\ hashObj = NoHash
    /\ lastSums = NoSums
    /\ nops = 0
    /\ lastWrite = NoWrite
    /\ closeLog = << >>

Init ==
    /\ algorithms \in (SUBSET AllAlgs) \ {{}}
    /\ numCPU \in CpuCounts
    /\ cache \in {"xattr", "nil"}
    /\ filenames \in FileLists
    /\ now = StartTime
    /\ events = 0
    /\ \E fs \in [Paths -> InitFiles \cup {Untouched}] :
          /\ \A p \in Paths : (p \notin Used(filenames) \/ cache = "nil") => fs[p] = Untouched
          /\ \A p \in Paths \ {"a"} : fs[p] \in OtherFiles
          /\ content = [p \in Paths |-> fs[p].content]
          /\ mtime   = [p \in Paths |-> fs[p].mtime]
          /\ xattrs  = [p \in Paths |-> fs[p].xattrs]
    /\ mainPc = "start"
    /\ fileChan = << >>
    /\ fileClosed = FALSE
    /\ prodPos = 0
    /\ workers = EmptyBag
    /\ wg = 0
    /\ resultClosed = FALSE
    /\ consPc = "idle"
    /\ inCall = 0
    /\ delivered = << >>
    /\ hist = [i \in Jobs |-> NoHist]
    /\ hasAvx512 = FALSE
    /\ idList = ListOf(algorithms)
    /\ srvState = "built"
    /\ closers = NewServer(idList, hasAvx512).closers
    /\ resources = NewServer(idList, hasAvx512).resources
    /\ newErr = NilError
    /\ Unused
    /\ runs = 0

\* ---------------------------------------------------------------- helpers
Swap(old, new) == (workers (-) SetToBag({old})) (+) SetToBag({new})

Note(i, field, value) == [hist EXCEPT ![i] = [@ EXCEPT ![field] = value]]

Result(w) == [idx |-> w.idx, filename |-> w.filename, sums |-> w.sums, err |-> w.err]

Running == mainPc \in {"wait", "waitdone"}

\* ------------------------------------------------------- Parallel: set-up
\* make the channels, start the producer, the consumer and the workers
Start ==
    /\ mainPc = "start"
    /\ mainPc' = "wait"
    /\ workers' = [w \in {Idle} |-> NumberOfWorkers(numCPU, algorithms)]
    /\ wg' = NumberOfWorkers(numCPU, algorithms)
    /\ consPc' = "recv"
    /\ UNCHANGED <<inputs, env, chans, inCall, delivered, hist>>

\* ------------------------------------------------------ Parallel: producer
Produce ==
    /\ Running
    /\ prodPos < Len(filenames)
    /\ Len(fileChan) < NumberOfWorkers(numCPU, algorithms)
    /\ fileChan' = Append(fileChan, [idx |-> prodPos + 1, filename |-> filenames[prodPos + 1]])
    /\ prodPos' = prodPos + 1
    /\ UNCHANGED <<inputs, env, fileClosed, resultClosed, cons, mainPc, workers, wg, hist>>

CloseFileChan ==
    /\ Running
    /\ prodPos = Len(filenames)
    /\ ~fileClosed
    /\ fileClosed' = TRUE
    /\ UNCHANGED <<inputs, env, fileChan, prodPos, resultClosed, cons, mainPc, workers, wg, hist>>

\* ------------------------------------------------------- Parallel: workers
\* mutant: the cache is consulted without testing srv.cache != nil
WorkerRecvAlwaysGet(w) ==
    /\ w.pc = "recv"
    /\ fileChan # << >>
    /\ LET job == Head(fileChan) IN
        /\ workers' = Swap(w, [w EXCEPT !.pc = "get",
                                         !.idx = job.idx, !.filename = job.filename])
        /\ hist' = Note(job.idx, "claims", hist[job.idx].claims + 1)
    /\ fileChan' = Tail(fileChan)
    /\ UNCHANGED <<inputs, env, fileClosed, prodPos, resultClosed, cons, mainPc, wg>>

WorkerRecv(w) ==
    /\ w.pc = "recv"
    /\ fileChan # << >>
    /\ LET job == Head(fileChan) IN
        /\ workers' = Swap(w, [w EXCEPT !.pc = IF cache # "nil" THEN "get" ELSE "hash",
                                         !.idx = job.idx, !.filename = job.filename])
        /\ hist' = Note(job.idx, "claims", hist[job.idx].claims + 1)
    /\ fileChan' = Tail(fileChan)
    /\ UNCHANGED <<inputs, env, fileClosed, prodPos, resultClosed, cons, mainPc, wg>>

WorkerExit(w) ==
    /\ w.pc = "recv"
    /\ fileChan = << >>
    /\ fileClosed
    /\ workers' = workers (-) SetToBag({w})
    /\ wg' = wg - 1
    /\ UNCHANGED <<inputs, env, chans, cons, mainPc, hist>>

\* a system call succeeds, or fails while failures are left to happen
Outcome(ok) ==
    /\ ~ok => events < MaxEvents
    /\ events' = IF ok THEN events ELSE events + 1

\* mutant: a full-covering entry is not used, the file is hashed anyway
AfterGetIgnoreHit(w, sums, err) == [w EXCEPT !.pc = "hash"]

\* mutant: an error of Get ends the job with that error
AfterGetAbortOnError(w, sums, err) ==
    IF err # NoErr \/ ~Missing(sums, algorithms)
    THEN [w EXCEPT !.pc = "send", !.sums = sums, !.err = err]
    ELSE [w EXCEPT !.pc = "hash"]

\* where a worker goes with what Get returned: the coverage test
AfterGet(w, sums, err) ==
    IF err = NoErr /\ ~Missing(sums, algorithms)
    THEN [w EXCEPT !.pc = "send", !.sums = sums, !.err = err]
    ELSE [w EXCEPT !.pc = "hash"]

\* the cache check: srv.cache.Get(filename)
WorkerGet(w) ==
    /\ w.pc = "get"
    /\ \E fail \in GetFailures, drop \in SUBSET AllAlgs :
         LET f == w.filename
             faulty == fail # "none" \/ drop # {}
             r == xattrCacheGet(xattrs[f], mtime[f], fail, drop)
         IN  /\ drop \subseteq {a \in AllAlgs : XGet(xsumNS, xattrs[f], <<a>>) # NoVal}
             /\ Outcome(~faulty)
             /\ xattrs' = [xattrs EXCEPT ![f] = r.store]
             /\ hist' = [hist EXCEPT ![w.idx] =
                            [@ EXCEPT !.gets = @ + 1,
                                      !.getRet = [sums |-> r.sums, err |-> r.err,
                                                  stale |-> r.stale]]]
             /\ workers' = Swap(w, AfterGet(w, r.sums, r.err))
    /\ UNCHANGED <<inputs, now, content, mtime, chans, cons, mainPc, wg>>

\* time.Now(), or the kernel's stamp on a write: the clock does not go back
Clock == now..(StartTime + MaxTicks)

\* mutant: digests the cache returned are kept, only the others are computed
AfterHashFill(w, sums, err) ==
    LET cached == hist[w.idx].getRet.sums IN
    [w EXCEPT !.pc = IF cache # "nil" /\ err = NoErr THEN "set" ELSE "send",
              !.sums = IF err # NoErr THEN sums
                       ELSE [nil |-> FALSE,
                             m |-> [a \in Known |-> IF cached.m[a] # NoVal
                                                      THEN cached.m[a] ELSE sums.m[a]]],
              !.err = err]

\* mutant: Set is called whether or not hashFile failed
AfterHashAlwaysSet(w, sums, err) ==
    [w EXCEPT !.pc = IF cache # "nil" THEN "set" ELSE "send",
              !.sums = sums, !.err = err]

\* mutant: a file that could not be read is tried again
AfterHashRetry(w, sums, err) ==
    [w EXCEPT !.pc = IF err # NoErr THEN "hash"
                     ELSE IF cache # "nil" THEN "set" ELSE "send",
              !.sums = sums, !.err = err]

\* mutant: the result is sent without calling Set
AfterHashSkipSet(w, sums, err) == [w EXCEPT !.pc = "send", !.sums = sums, !.err = err]

\* where a worker goes with the outcome of hashFile
AfterHash(w, sums, err) ==
    [w EXCEPT !.pc = IF cache # "nil" /\ err = NoErr THEN "set" ELSE "send",
              !.sums = sums, !.err = err]

HashOutcomes == {"ok", "open", "read"}

\* mutant: one Hash serves every job and is never reset, so it still holds
\* what the files hashed before have written to it
hashFileShared(data, algs, outcome) ==
    LET before == Cardinality({i \in Jobs : hist[i].opens = 1 /\ hist[i].read # 0}) IN
    IF outcome = "ok"
    THEN [sums |-> MultiSum(Write([a \in algs |-> before], data)), err |-> NoErr]
    ELSE [sums |-> NilSums, err |-> outcome]

\* hashFile(filename, srv.NewHash()): os.Open, io.Copy into the Hash, MultiSum
hashFile(data, algs, outcome) ==
    IF outcome = "ok"
    THEN [sums |-> MultiSum(Write(NewHash(algs), data)), err |-> NoErr]
    ELSE [sums |-> NilSums, err |-> outcome]

WorkerHash(w) ==
    /\ w.pc = "hash"
    /\ \E outcome \in HashOutcomes :
         LET r == hashFile(content[w.filename], algorithms, outcome) IN
         /\ Outcome(outcome = "ok")
         /\ workers' = Swap(w, AfterHash(w, r.sums, r.err))
         /\ hist' = [hist EXCEPT ![w.idx] =
                        [@ EXCEPT !.opens = @ + 1,
                                  !.read = IF outcome = "ok" THEN content[w.filename] ELSE 0]]
    /\ UNCHANGED <<inputs, now, content, mtime, xattrs, chans, cons, mainPc, wg>>

\* mutant: the error of Set is dropped
AfterSetSwallow(w, err) == [w EXCEPT !.pc = "send"]

\* err = srv.cache.Set(filename, sums), then on to the send
AfterSet(w, err) == [w EXCEPT !.pc = "send", !.err = err]

WorkerSet(w) ==
    /\ w.pc = "set"
    /\ \E fail \in SetFailures, written \in SUBSET Keys(w.sums), t \in Clock :
         /\ now' = t
         /\ fail = "alg" => written # Keys(w.sums)
         /\ fail # "alg" => written = Keys(w.sums)
         /\ Outcome(fail = "none")
         /\ LET f == w.filename
                 r == xattrCacheSet(xattrs[f], w.sums, t, fail, written)
             IN  /\ xattrs' = [xattrs EXCEPT ![f] = r.store]
                 /\ workers' = Swap(w, AfterSet(w, r.err))
                 /\ hist' = [hist EXCEPT ![w.idx] =
                                [@ EXCEPT !.sets = @ + 1, !.setArg = w.sums, !.setRet = r.err]]
    /\ UNCHANGED <<inputs, content, mtime, chans, cons, mainPc, wg>>

\* mutant: a result that carries an error is dropped, not sent
WorkerEmitLossy(w) ==
    /\ w.pc = "send"
    /\ consPc = "recv"
    /\ ~resultClosed
    /\ IF w.err # NoErr
       THEN UNCHANGED cons
       ELSE /\ consPc' = "incall"
            /\ inCall' = inCall + 1
            /\ delivered' = Append(delivered, Result(w))
    /\ workers' = Swap(w, Idle)
    /\ UNCHANGED <<inputs, env, chans, mainPc, wg, hist>>

\* mutant: the worker invokes onResult itself, whatever the consumer is doing
WorkerEmitDirect(w) ==
    /\ w.pc = "send"
    /\ ~resultClosed
    /\ consPc' = "incall"
    /\ inCall' = inCall + 1
    /\ delivered' = Append(delivered, Result(w))
    /\ workers' = Swap(w, Idle)
    /\ UNCHANGED <<inputs, env, chans, mainPc, wg, hist>>

\* resultChan <- &result{...}: the hand-over to the consumer's receive
WorkerEmit(w) ==
    /\ w.pc = "send"
    /\ consPc = "recv"
    /\ ~resultClosed
    /\ consPc' = "incall"
    /\ inCall' = inCall + 1
    /\ delivered' = Append(delivered, Result(w))
    /\ workers' = Swap(w, Idle)
    /\ UNCHANGED <<inputs, env, chans, mainPc, wg, hist>>

\* ------------------------------------------------ Parallel: result consumer
ConsumerReturn ==
    /\ consPc = "incall"
    /\ consPc' = "recv"
    /\ inCall' = inCall - 1
    /\ UNCHANGED <<inputs, env, chans, delivered, mainPc, workers, wg, hist>>

ConsumerDone ==
    /\ consPc = "recv"
    /\ resultClosed
    /\ consPc' = "senddone"
    /\ UNCHANGED <<inputs, env, chans, inCall, delivered, mainPc, workers, wg, hist>>

\* ------------------------------------------------------- Parallel: caller
\* mutant: close(resultChan) is forgotten
MainCloseForgotten ==
    /\ mainPc = "wait"
    /\ wg = 0
    /\ mainPc' = "waitdone"
    /\ UNCHANGED <<inputs, env, chans, cons, workers, wg, hist>>

\* wg.Wait() returns, close(resultChan)
MainClose ==
    /\ mainPc = "wait"
    /\ wg = 0
    /\ resultClosed' = TRUE
    /\ mainPc' = "waitdone"
    /\ UNCHANGED <<inputs, env, fileChan, fileClosed, prodPos, cons, workers, wg, hist>>

\* mutant: Parallel returns without receiving from done
MainReturnEarly ==
    /\ mainPc = "waitdone"
    /\ mainPc' = "returned"
    /\ UNCHANGED <<inputs, env, chans, cons, workers, wg, hist>>

\* <-done meets the consumer's done <- true
MainReturn ==
    /\ mainPc = "waitdone"
    /\ consPc = "senddone"
    /\ mainPc' = "returned"
    /\ consPc' = "exit"
    /\ UNCHANGED <<inputs, env, chans, inCall, delivered, workers, wg, hist>>

\* ------------------------------------------------------------ environment
\* another process rewrites a file that a worker is busy with
Busy(p) == \E w \in BagToSet(workers) : w.filename = p /\ w.pc \in {"get", "hash", "set"}

ModifyFile(p) ==
    /\ Running
    /\ Busy(p)
    /\ events < MaxEvents
    /\ events' = events + 1
    /\ content' = [content EXCEPT ![p] = @ + 1]
    /\ \E t \in Clock :
         /\ now' = t
         /\ mtime' = [mtime EXCEPT ![p] = t]
    /\ UNCHANGED <<inputs, xattrs, chans, cons, mainPc, workers, wg, hist>>

\* ------------------------------------------------------------------ system
Step ==
    \/ Start
    \/ Produce
    \/ CloseFileChan
    \/ \E w \in BagToSet(workers) : WorkerRecv(w)
    \/ \E w \in BagToSet(workers) : WorkerExit(w)
    \/ \E w \in BagToSet(workers) : WorkerGet(w)
    \/ \E w \in BagToSet(workers) : WorkerHash(w)
    \/ \E w \in BagToSet(workers) : WorkerSet(w)
    \/ \E w \in BagToSet(workers) : WorkerEmit(w)
    \/ ConsumerReturn
    \/ ConsumerDone
    \/ MainClose
    \/ MainReturn

Environment == \E p \in Used(filenames) : ModifyFile(p)

Next == Step \/ Environment

Spec == Init /\ [][Next]_vars

\* the Go scheduler keeps running some goroutine that can run
FairSpec == Spec /\ WF_vars(Step)

\* ------------------------------------------------- the engine's life cycle
\* no Parallel run: the state of the run's variables before Start
NoRun ==
    /\ cache = "nil"
    /\ filenames = << >>
    /\ now = StartTime
    /\ events = 0
    /\ content = [p \in Paths |-> Untouched.content]
    /\ mtime   = [p \in Paths |-> Untouched.mtime]
    /\ xattrs  = [p \in Paths |-> Untouched.xattrs]
    /\ mainPc = "start"
    /\ fileChan = << >>
    /\ fileClosed = FALSE
    /\ prodPos = 0
    /\ workers = EmptyBag
    /\ wg = 0
    /\ resultClosed = FALSE
    /\ consPc = "idle"
    /\ inCall = 0
    /\ delivered = << >>
    /\ hist = << >>
    /\ runs = 0

EngineInit ==
    /\ idList \in IdLists
    /\ hasAvx512 \in BOOLEAN
    /\ numCPU \in AnyCpuCounts
    /\ srvState = "none"
    /\ algorithms = {}
    /\ closers = << >>
    /\ resources = << >>
    /\ newErr = NilError
    /\ Unused
    /\ NoRun

\* srv, err := NewServer(cache, idList...)
DoNewServer ==
    /\ srvState = "none"
    /\ LET r == NewServer(idList, hasAvx512) IN
        /\ srvState' = IF r.ok THEN "built" ELSE "failed"
        /\ newErr' = r.err
        /\ algorithms' = r.algorithms
        /\ closers' = r.closers
        /\ resources' = r.resources
    /\ UNCHANGED <<idList, hasAvx512, numCPU, numWorkers, hashObj, lastSums, nops, lastWrite, closeLog, run>>

\* srv.NumberOfWorkers(): the division panics when the engine has no algorithm
DoNumberOfWorkers ==
    /\ srvState = "built"
    /\ IF algorithms = {}
       THEN /\ numWorkers' = [called |-> TRUE, a |-> 0, n |-> 0, panic |-> TRUE]
            /\ srvState' = "panic"
       ELSE /\ numWorkers' = [called |-> TRUE, a |-> Cardinality(algorithms),
                              n |-> NumberOfWorkers(numCPU, algorithms), panic |-> FALSE]
            /\ UNCHANGED srvState
    /\ UNCHANGED <<idList, hasAvx512, numCPU, algorithms, closers, resources, newErr,
                   hashObj, lastSums, nops, lastWrite, closeLog, run>>

\* a Hash can be used while the md5 server behind it has not been closed
Usable(h) == h.live /\ (closeLog # << >> => "md5" \notin h.from)

\* h := srv.NewHash()
DoNewHash ==
    /\ srvState = "built"
    /\ nops < MaxOps
    /\ hashObj' = [live |-> TRUE, from |-> algorithms, digests |-> NewHash(algorithms)]
    /\ nops' = nops + 1
    /\ UNCHANGED <<idList, hasAvx512, numCPU, algorithms, srvState, closers, resources,
                   newErr, numWorkers, lastSums, lastWrite, closeLog, run>>

\* h.Write(p)
DoWrite ==
    /\ Usable(hashObj)
    /\ nops < MaxOps
    /\ \E failing \in DOMAIN hashObj.digests \cup {"none"} :
       \E done \in SUBSET (DOMAIN hashObj.digests \ {failing}) :
         LET after == IF failing = "none" THEN Write(hashObj.digests, 1)
                      ELSE WritePart(hashObj.digests, 1, done)
             err   == IF failing = "none" THEN NilError ELSE Errorf(<<"write: ", failing>>)
         IN  /\ failing = "none" => done = DOMAIN hashObj.digests
             /\ hashObj' = [hashObj EXCEPT !.digests = after]
             /\ lastWrite' = [called |-> TRUE, before |-> hashObj.digests,
                              after |-> after, err |-> err]
    /\ nops' = nops + 1
    /\ UNCHANGED <<idList, hasAvx512, numCPU, algorithms, srvState, closers, resources,
                   newErr, numWorkers, lastSums, closeLog, run>>

\* h.Reset()
DoReset ==
    /\ Usable(hashObj)
    /\ nops < MaxOps
    /\ hashObj' = [hashObj EXCEPT !.digests = Reset(@)]
    /\ nops' = nops + 1
    /\ UNCHANGED <<idList, hasAvx512, numCPU, algorithms, srvState, closers, resources,
                   newErr, numWorkers, lastSums, lastWrite, closeLog, run>>

\* sums := h.MultiSum(nil)
DoMultiSum ==
    /\ Usable(hashObj)
    /\ nops < MaxOps
    /\ lastSums' = [called |-> TRUE, sums |-> MultiSum(hashObj.digests), from |-> hashObj.from]
    /\ nops' = nops + 1
    /\ UNCHANGED <<idList, hasAvx512, numCPU, algorithms, srvState, closers, resources,
                   newErr, numWorkers, hashObj, lastWrite, closeLog, run>>

\* err := srv.Close()
Close ==
    /\ srvState = "built"
    /\ Len(closeLog) < MaxCloses
    /\ LET r == RunClosers(closers)
           freed(k) == Cardinality({j \in 1..Len(r.invoked) :
                                       /\ closers[r.invoked[j]].res = k
                                       /\ closers[r.invoked[j]].ret.nil})
       IN  /\ resources' = [k \in DOMAIN resources |->
                                [resources[k] EXCEPT !.released = @ + freed(k)]]
           /\ closeLog' = Append(closeLog, [registered |-> closers,
                                            invoked |-> r.invoked, ret |-> r.err])
    /\ algorithms' = {}
    /\ closers' = << >>
    /\ UNCHANGED <<idList, hasAvx512, numCPU, srvState, newErr, numWorkers, hashObj,
                   lastSums, nops, lastWrite, run>>

EngineNext ==
    \/ DoNewServer
    \/ DoNumberOfWorkers
    \/ DoNewHash
    \/ DoWrite
    \/ DoReset
    \/ DoMultiSum
    \/ Close

EngineSpec == EngineInit /\ [][EngineNext]_vars

\* ------------------------------------------------ Close on any release steps
StepRets == {NilError, Errorf(<<"e1">>), Errorf(<<"e2">>), Errorf(<<"e3">>)}

\* an engine whose release steps return any of StepRets
CloseInit ==
    /\ \E n \in 0..MaxClosers : \E rets \in [1..n -> StepRets] :
          /\ closers = [i \in 1..n |-> [res |-> i, ret |-> rets[i]]]
          /\ resources = [i \in 1..n |-> [kind |-> "step", released |-> 0]]
    /\ idList = <<"sha1">>
    /\ algorithms = {"sha1"}
    /\ hasAvx512 = FALSE
    /\ numCPU \in CpuCounts
    /\ srvState = "built"
    /\ newErr = NilError
    /\ Unused
    /\ NoRun

CloseNext == Close

CloseSpec == CloseInit /\ [][CloseNext]_vars

\* ------------------------------------------------ runs one after the other
\* the first run of xsum on a file that has never been hashed; no system
\* call fails and no file changes while a run is under way
RunsInit ==
    /\ algorithms \in (SUBSET AllAlgs) \ {{}}
    /\ numCPU \in CpuCounts
    /\ cache = "xattr"
    /\ filenames = <<"a">>
    /\ now = StartTime
    /\ events = MaxEvents
    /\ content = [p \in Paths |-> Untouched.content]
    /\ mtime   = [p \in Paths |-> Untouched.mtime]
    /\ xattrs  = [p \in Paths |-> Untouched.xattrs]
    /\ mainPc = "start"
    /\ fileChan = << >>
    /\ fileClosed = FALSE
    /\ prodPos = 0
    /\ workers = EmptyBag
    /\ wg = 0
    /\ resultClosed = FALSE
    /\ consPc = "idle"
    /\ inCall = 0
    /\ delivered = << >>
    /\ hist = [i \in Jobs |-> NoHist]
    /\ hasAvx512 = FALSE
    /\ idList = ListOf(algorithms)
    /\ srvState = "built"
    /\ closers = NewServer(idList, hasAvx512).closers
    /\ resources = NewServer(idList, hasAvx512).resources
    /\ newErr = NilError
    /\ Unused
    /\ runs = 0

\* xsum is started again on the same files: doXsum builds a new engine for
\* the algorithms asked for and calls Parallel
NextRun ==
    /\ mainPc = "returned"
    /\ runs < MaxRuns - 1
    /\ runs' = runs + 1
    /\ \E algs \in (SUBSET AllAlgs) \ {{}} :
          /\ algorithms' = algs
          /\ idList' = ListOf(algs)
          /\ closers' = NewServer(ListOf(algs), hasAvx512).closers
          /\ resources' = NewServer(ListOf(algs), hasAvx512).resources
    /\ mainPc' = "start"
    /\ fileChan' = << >>
    /\ fileClosed' = FALSE
    /\ prodPos' = 0
    /\ workers' = EmptyBag
    /\ wg' = 0
    /\ resultClosed' = FALSE
    /\ consPc' = "idle"
    /\ inCall' = 0
    /\ delivered' = << >>
    /\ hist' = [i \in Jobs |-> NoHist]
    /\ UNCHANGED <<numCPU, cache, filenames, env, hasAvx512, srvState, newErr,
                   numWorkers, hashObj, lastSums, nops, lastWrite, closeLog>>

\* a file is rewritten between two runs, later than the last run's clock reading
ModifyBetween(p) ==
    /\ mainPc = "start"
    /\ content[p] <= MaxEdits
    /\ content' = [content EXCEPT ![p] = @ + 1]
    /\ \E t \in Clock :
         /\ t > now
         /\ now' = t
         /\ mtime' = [mtime EXCEPT ![p] = t]
    /\ UNCHANGED <<inputs, events, xattrs, chans, cons, mainPc, workers, wg, hist>>

Edits == \E p \in Used(filenames) : ModifyBetween(p)

RunsNext == Step \/ NextRun \/ Edits

RunsSpec == RunsInit /\ [][RunsNext]_vars

\* ------------------------------------------------------------------ claims
Done == mainPc = "returned"

\* what xattrCache.Get answers for file p as it is now, no system call failing
CacheAnswer(p) == xattrCacheGet(xattrs[p], mtime[p], "none", {})

\* the onResult invocations made for list entry i
Calls(i) == {k \in 1..Len(delivered) : delivered[k].idx = i}

Emitted(i) == Calls(i) # {}

ResultOf(i) == delivered[CHOOSE k \in Calls(i) : TRUE]

\* C1: batch completeness. Every onResult invocation is for an entry of the
\* list and carries that entry's filename, no entry gets two invocations, and
\* when Parallel has returned every entry has had exactly one: N invocations
\* for N entries, whatever they were (hits, misses, errors).
C1_BatchComplete ==
    /\ \A k \in 1..Len(delivered) :
          /\ delivered[k].idx \in Jobs
          /\ delivered[k].filename = filenames[delivered[k].idx]
    /\ \A i \in Jobs : Cardinality(Calls(i)) <= 1
    /\ Done => /\ Len(delivered) = Len(filenames)
               /\ \A i \in Jobs : Cardinality(Calls(i)) = 1

\* a finished batch that mixed a cache hit with a job that ended in an error
C1_Witness ==
    /\ Done
    /\ \E i, j \in Jobs :
          /\ hist[i].gets = 1 /\ hist[i].opens = 0 /\ ResultOf(i).err = NoErr
          /\ ResultOf(j).err # NoErr

\* C2: Parallel returns only after every job has produced its Result and
\* every onResult invocation has returned (the consumer and all workers are
\* gone), and once it has returned no invocation starts or ends.
C2_ReturnsAfterAll ==
    /\ [](Done => /\ \A i \in Jobs : Emitted(i)
                  /\ inCall = 0
                  /\ consPc = "exit"
                  /\ wg = 0 /\ BagToSet(workers) = {})
    /\ [][Done => UNCHANGED <<delivered, inCall>>]_vars

C2_Witness == Done /\ Len(delivered) >= 2

\* C3: Parallel terminates. Under fair scheduling every run, for every file
\* list (empty, shorter than the worker count, longer than the job queue),
\* reaches the return of Parallel.
C3_Terminates == <>Done

\* a returned run whose list was longer than the job queue's capacity
C3_Witness == Done /\ Len(filenames) > NumberOfWorkers(numCPU, algorithms)

\* C4: onResult is never running twice at once; it runs exactly while the
\* single consumer is inside its call.
C4_CallbackSerialized ==
    /\ inCall <= 1
    /\ inCall = 1 <=> consPc = "incall"

\* a worker has its result ready while onResult is running for another
C4_Witness ==
    /\ inCall = 1
    /\ \E w \in BagToSet(workers) : w.pc = "send"

\* the reference digest H_a of a file's bytes, and the map of all requested ones
RefDigest(a, data) == <<a, data>>

FreshMap(data) ==
    [nil |-> FALSE,
     m   |-> [a \in Known |-> IF a \in algorithms THEN RefDigest(a, data) ELSE NoVal]]

GetErrors  == {"stat", "getxattr", "listxattr"}
ReadErrors == {"open", "read"}

\* what Get returned for list entry i
GotHit(i)     == hist[i].gets = 1 /\ hist[i].getRet.err = NoErr
                 /\ \A a \in algorithms : hist[i].getRet.sums.m[a] # NoVal
GotPartial(i) == hist[i].gets = 1 /\ hist[i].getRet.err = NoErr
                 /\ \E a \in algorithms : hist[i].getRet.sums.m[a] = NoVal
GotError(i)   == hist[i].gets = 1 /\ hist[i].getRet.err # NoErr
\* how hashFile ended for list entry i
Hashed(i)     == hist[i].opens = 1 /\ hist[i].read # 0
ReadFailed(i) == hist[i].opens = 1 /\ hist[i].read = 0

\* C5: cache-hit short-circuit. When Get returned no error and a map with a
\* digest for every algorithm of the engine, the file is not opened, Set is
\* not called, and the Result is exactly that map with no error.
C5_CacheHitShortCircuit ==
    \A i \in Jobs : GotHit(i) =>
        /\ hist[i].opens = 0
        /\ hist[i].sets = 0
        /\ \A k \in Calls(i) : /\ delivered[k].sums = hist[i].getRet.sums
                                /\ delivered[k].err = NoErr
        /\ Done => Emitted(i)

C5_Witness == \E i \in Jobs : GotHit(i) /\ Emitted(i)

\* C6 as stated: after a Get that returned a map missing a requested
\* algorithm the file is read, every requested digest is recomputed, the
\* Result carries those and Set was called with that full map.
C6_PartialIsFullMiss ==
    \A i \in Jobs : (GotPartial(i) /\ Emitted(i)) =>
        /\ Hashed(i)
        /\ ResultOf(i).sums = FreshMap(hist[i].read)
        /\ hist[i].sets = 1
        /\ hist[i].setArg = FreshMap(hist[i].read)

\* C6 amended: after such a Get the file is opened; if it is read without
\* error the Result carries the digest of the bytes read for exactly the
\* requested algorithms, none taken from the cached map, and Set was called
\* once with that map; if opening or reading fails the Result carries that
\* error and no map, and Set is not called.
C6_PartialIsFullMissIfRead ==
    \A i \in Jobs : (GotPartial(i) /\ Emitted(i)) =>
        /\ hist[i].opens = 1
        /\ Hashed(i) =>
              /\ ResultOf(i).sums = FreshMap(hist[i].read)
              /\ hist[i].sets = 1
              /\ hist[i].setArg = FreshMap(hist[i].read)
        /\ ReadFailed(i) =>
              /\ ResultOf(i).sums = NilSums
              /\ ResultOf(i).err \in ReadErrors
              /\ hist[i].sets = 0

\* the cached map held a digest that differs from the recomputed one
C6_Witness ==
    \E i \in Jobs :
        /\ GotPartial(i) /\ Emitted(i) /\ Hashed(i)
        /\ \E a \in algorithms :
              /\ hist[i].getRet.sums.m[a] # NoVal
              /\ hist[i].getRet.sums.m[a] # ResultOf(i).sums.m[a]

\* C7: staleness. When Get found the cached timestamp older than the file's
\* modification time, the file is hashed again, and right after a successful
\* Set the cache holds the recomputed digests with a timestamp that is not
\* earlier than the file's modification time.
C7_StaleEntryRefreshed ==
    \A w \in BagToSet(workers) :
        (/\ w.pc = "send"
         /\ hist[w.idx].getRet.stale
         /\ hist[w.idx].sets = 1
         /\ hist[w.idx].setRet = NoErr) =>
            LET store == xattrs[w.filename]
                stamp == XGet(xsumNS, store, TimeKey)
            IN  /\ Hashed(w.idx)
                /\ w.sums = FreshMap(hist[w.idx].read)
                /\ \A a \in algorithms : XGet(xsumNS, store, <<a>>) = w.sums.m[a]
                /\ stamp # NoVal
                /\ timeFromBytes(stamp) >= mtime[w.filename]

\* C8 as stated: after a Get that returned an error the file is hashed and
\* the Result carries the computed digest map and not the error of Get.
C8_GetErrorIsMiss ==
    \A i \in Jobs : (GotError(i) /\ Emitted(i)) =>
        /\ Hashed(i)
        /\ ResultOf(i).sums = FreshMap(hist[i].read)
        /\ ResultOf(i).err # hist[i].getRet.err

\* C8 amended: after a Get that returned an error the job goes on to open
\* the file and its Result never carries an error of Get: if the file is read
\* the Result carries the computed digest map (and the error of Set, if Set
\* failed), and if opening or reading fails it carries that error and no map.
C8_GetErrorIsMissIfRead ==
    \A i \in Jobs : GotError(i) =>
        /\ Done => Emitted(i)
        /\ Emitted(i) =>
              /\ hist[i].opens = 1
              /\ ResultOf(i).err \notin GetErrors
              /\ Hashed(i) =>
                    /\ ResultOf(i).sums = FreshMap(hist[i].read)
                    /\ ResultOf(i).err = (IF hist[i].sets = 1 THEN hist[i].setRet ELSE NoErr)
              /\ ReadFailed(i) =>
                    /\ ResultOf(i).sums = NilSums
                    /\ ResultOf(i).err \in ReadErrors

C8_Witness ==
    \E i \in Jobs :
        /\ hist[i].getRet.err = "stat"
        /\ Emitted(i) /\ Hashed(i)
        /\ ResultOf(i).err = NoErr

\* C9: a failing Set does not lose the digest. When the file was hashed and
\* Set returned an error, the Result is still emitted, carries the full
\* computed map (the one handed to Set) and has the error of Set as its error.
C9_SetErrorKeepsDigest ==
    \A i \in Jobs : (hist[i].sets = 1 /\ hist[i].setRet # NoErr) =>
        /\ Hashed(i)
        /\ hist[i].setArg = FreshMap(hist[i].read)
        /\ \A k \in Calls(i) : /\ delivered[k].sums = FreshMap(hist[i].read)
                                /\ delivered[k].err = hist[i].setRet
        /\ Done => Emitted(i)

C9_Witness == \E i \in Jobs : hist[i].sets = 1 /\ hist[i].setRet # NoErr /\ Emitted(i)

\* the Result a list entry's own history calls for
OwnResult(i, r) ==
    IF hist[i].opens = 0
    THEN r.sums = hist[i].getRet.sums /\ r.err = NoErr
    ELSE IF ReadFailed(i)
    THEN r.sums = NilSums /\ r.err \in ReadErrors
    ELSE /\ r.sums = FreshMap(hist[i].read)
         /\ r.err = (IF hist[i].sets = 1 THEN hist[i].setRet ELSE NoErr)

\* C10: a file open/read error is fatal for that job only. The job's Result
\* carries the error and a nil map and the job makes no Set call; every job
\* of the batch still gets exactly one Result, and each Result is the one the
\* job's own lookup, read and store call for, whatever happened to the others.
C10_ReadErrorIsLocal ==
    /\ \A i \in Jobs : ReadFailed(i) =>
          /\ hist[i].sets = 0
          /\ \A k \in Calls(i) : /\ delivered[k].sums = NilSums
                                  /\ delivered[k].err \in ReadErrors
    /\ \A j \in Jobs : \A k \in Calls(j) : OwnResult(j, delivered[k])
    /\ Done => \A j \in Jobs : Cardinality(Calls(j)) = 1

\* the single worker went on after a failed read and delivered the next file
C10_Witness ==
    /\ Done
    /\ NumberOfWorkers(numCPU, algorithms) = 1
    /\ \E i, j \in Jobs :
          /\ i < j
          /\ ReadFailed(i) /\ ResultOf(i).err \in ReadErrors
          /\ Hashed(j) /\ ResultOf(j).err = NoErr

\* C11: with a nil cache caching is disabled. Neither Get nor Set is ever
\* invoked during the run, and every job that leaves the worker has taken the
\* compute path: its file was opened once.
C11_NilCacheComputes ==
    cache = "nil" =>
        \A i \in Jobs :
            /\ hist[i].gets = 0
            /\ hist[i].sets = 0
            /\ Emitted(i) => hist[i].opens = 1
            /\ Done => Emitted(i)

C11_Witness ==
    /\ cache = "nil"
    /\ Done
    /\ \E i \in Jobs : Hashed(i) /\ ResultOf(i).sums = FreshMap(hist[i].read)

\* the worker count the formula min(16, max(1, P div A)) gives
FormulaWorkers(cpus, algs) ==
    LET q == cpus \div Cardinality(algs)
        atLeastOne == IF q < 1 THEN 1 ELSE q
    IN  IF atLeastOne > 16 THEN 16 ELSE atLeastOne

\* C12: worker-count formula. While no worker has left yet, the number of
\* workers Parallel has spawned is min(16, max(1, P div A)), P the processor
\* count and A the number of algorithms of the engine.
C12_WorkerFormula ==
    (Running /\ ~fileClosed) =>
        BagCardinality(workers) = FormulaWorkers(numCPU, algorithms)

\* C13: worker-count bounds. For every engine with at least one algorithm
\* and every processor count P >= 1 the result W of NumberOfWorkers satisfies
\* 1 <= W <= 16, and W = 1 whenever there are more algorithms than processors.
C13_WorkerBounds ==
    (numWorkers.called /\ ~numWorkers.panic) =>
        /\ numWorkers.a >= 1 /\ numCPU >= 1
        /\ 1 <= numWorkers.n /\ numWorkers.n <= 16
        /\ numWorkers.a > numCPU => numWorkers.n = 1

C13_Witness ==
    /\ numWorkers.called
    /\ numWorkers.a > numCPU
    /\ numWorkers.n = 1

\* positions of idList holding an identifier outside md5, sha256, sha1, sha512
Offending == {i \in 1..Len(idList) : idList[i] \notin {"md5", "sha256", "sha1", "sha512"}}

\* C14: construction. Once NewServer has returned: if the identifier list
\* holds an identifier outside {md5, sha256, sha1, sha512} it returned no
\* Engine (nothing can be called on one) and an "unknown algorithm" error
\* naming the first such identifier of the list; otherwise it returned an
\* Engine and no error.
C14_ConstructionErrors ==
    srvState # "none" =>
        IF Offending = {}
        THEN srvState # "failed" /\ newErr.nil
        ELSE LET first == CHOOSE i \in Offending : \A j \in Offending : i <= j IN
             /\ srvState = "failed"
             /\ newErr = [nil |-> FALSE, msg |-> <<"unknown algorithm: ", idList[first]>>]
             /\ algorithms = {} /\ closers = << >>
             /\ Unused

\* a known identifier, then two different unknown ones: the first is named
C14_Witness ==
    /\ srvState = "failed"
    /\ \E i, j \in Offending : i < j /\ idList[i] # idList[j]
    /\ 1 \notin Offending
    /\ newErr.msg[2] = idList[2]

\* the workers that hold list entry i
Holders(i) == {w \in BagToSet(workers) : w.idx = i}

\* C15: job lifecycle. Every list entry is claimed at most once, by one
\* worker, and is not in the queue again once claimed; for it there is at
\* most one Get call, one file read and one Set call, whatever failed; and
\* when Parallel has returned every entry has been claimed exactly once.
C15_JobLifecycle ==
    \A i \in Jobs :
        /\ hist[i].claims <= 1
        /\ hist[i].gets <= 1
        /\ hist[i].opens <= 1
        /\ hist[i].sets <= 1
        /\ Cardinality(Holders(i)) <= 1
        /\ \A w \in Holders(i) : CopiesIn(w, workers) = 1
        /\ hist[i].claims = 1 => \A k \in 1..Len(fileChan) : fileChan[k].idx # i
        /\ hist[i].claims = 0 => hist[i].gets + hist[i].opens + hist[i].sets = 0
        /\ Done => hist[i].claims = 1

\* a run that ended with a failed read and with a failed Get on record
C15_Witness ==
    /\ Done
    /\ \E i \in Jobs : ReadFailed(i) /\ hist[i].claims = 1
    /\ \E j \in Jobs : GotError(j) /\ hist[j].claims = 1

\* a worker is inside Get, the file read or Set
InCall(w) == w.pc \in {"get", "hash", "set"}

\* C16: each path is claimed by one worker only: no path is claimed for two
\* list entries, and two workers are never inside Get, the file read or Set
\* for the same path at the same time.
C16_PathClaimedOnce ==
    /\ \A p \in Paths :
          Cardinality({i \in Jobs : filenames[i] = p /\ hist[i].claims > 0}) <= 1
    /\ \A w1, w2 \in BagToSet(workers) :
          (InCall(w1) /\ InCall(w2) /\ w1.idx # w2.idx) => w1.filename # w2.filename

\* the algorithm set of a Hash: that of the construction list, or none when
\* NewHash was called after Close had cleared the engine's algorithms
BuiltFrom(from) == from = Used(idList) \/ (closeLog # << >> /\ from = {})

FailedMsgs(cs) ==
    LET f == SelectSeq(cs, LAMBDA c : ~c.ret.nil) IN
    [k \in 1..Len(f) |-> f[k].ret.msg[1]]

\* C18: Close aggregation. Every call of Close invokes every registered
\* release step, in order, also after one has failed; it returns nil exactly
\* when no step failed, and otherwise one error whose message holds the
\* message of every failed step, each once, joined by "; ".
C18_CloseAggregates ==
    \A c \in 1..Len(closeLog) :
        LET e == closeLog[c] IN
        /\ e.invoked = [i \in 1..Len(e.registered) |-> i]
        /\ e.ret.nil <=> FailedMsgs(e.registered) = << >>
        /\ SelectSeq(e.ret.msg, LAMBDA part : part # "; ") = FailedMsgs(e.registered)
        /\ Len(e.ret.msg) = IF e.ret.nil THEN 0 ELSE 2 * Len(FailedMsgs(e.registered)) - 1

\* the first step fails, the next succeeds, the third fails otherwise
C18_Witness ==
    \E c \in 1..Len(closeLog) :
        LET e == closeLog[c] IN
        /\ Len(e.registered) = 3
        /\ ~e.registered[1].ret.nil
        /\ e.registered[2].ret.nil
        /\ ~e.registered[3].ret.nil
        /\ e.registered[1].ret # e.registered[3].ret
        /\ e.ret.msg = e.registered[1].ret.msg \o <<"; ">> \o e.registered[3].ret.msg

\* C19: release exactly once. After the first Close has returned, every
\* background server created by NewServer (md5, and sha256 with AVX512) has
\* been released once, and a further Close releases none of them again.
C19_ReleasedOnce ==
    closeLog # << >> =>
        \A k \in DOMAIN resources : resources[k].released = 1

\* C20: determinism of the compute path. The map emitted for a hashed file
\* has, for every algorithm of the engine, the reference digest of the bytes
\* read and no other key, whichever worker ran the job and whatever it hashed
\* before; two hashed files with the same bytes get the same map.
C20_FreshDigest ==
    /\ \A i \in Jobs : Hashed(i) =>
          \A k \in Calls(i) :
              /\ Keys(delivered[k].sums) = algorithms
              /\ \A a \in algorithms : delivered[k].sums.m[a] = RefDigest(a, hist[i].read)
    /\ \A i, j \in Jobs :
          (Hashed(i) /\ Hashed(j) /\ Emitted(i) /\ Emitted(j) /\ hist[i].read = hist[j].read)
              => ResultOf(i).sums = ResultOf(j).sums
    /\ \A w \in BagToSet(workers) :
          (w.pc \in {"set", "send"} /\ Hashed(w.idx)) =>
              \A a \in algorithms : w.sums.m[a] = RefDigest(a, hist[w.idx].read)

\* one worker hashed two different files with the same bytes, one after the other
C20_Witness ==
    /\ NumberOfWorkers(numCPU, algorithms) = 1
    /\ \E i, j \in Jobs :
          /\ i < j /\ filenames[i] # filenames[j]
          /\ Hashed(i) /\ Hashed(j) /\ Emitted(i) /\ Emitted(j)
          /\ hist[i].read = hist[j].read
          /\ ResultOf(i).sums = ResultOf(j).sums

\* C21: Write is all-or-nothing. A Write(p) that returns no error has
\* appended p to the input of every primitive of the Hash, and a Write(p)
\* that returns an error has left the input of every primitive as it was.
C21_WriteAllOrNothing ==
    lastWrite.called =>
        IF lastWrite.err.nil
        THEN lastWrite.after = [a \in DOMAIN lastWrite.before |->
                                   lastWrite.before[a] * ContentBase + 1]
        ELSE lastWrite.after = lastWrite.before

\* C22: store before emission. With a cache, a job whose file was hashed
\* without error reaches the send, and onResult, only after its call of Set
\* has returned: when onResult is invoked for it Set has been called once,
\* with the map the Result carries, and the Result's error is what Set
\* returned.
C22_SetBeforeEmit ==
    /\ \A k \in 1..Len(delivered) :
          LET i == delivered[k].idx IN
          (cache # "nil" /\ Hashed(i)) =>
              /\ hist[i].sets = 1
              /\ hist[i].setArg = delivered[k].sums
              /\ hist[i].setRet = delivered[k].err
    /\ \A w \in BagToSet(workers) :
          (w.pc = "send" /\ cache # "nil" /\ Hashed(w.idx)) => hist[w.idx].sets = 1
    /\ \A w \in BagToSet(workers) :
          w.pc = "set" => hist[w.idx].sets = 0 /\ ~Emitted(w.idx)

\* a Result delivered after a Set that failed
C22_Witness ==
    \E i \in Jobs :
        /\ cache # "nil" /\ Hashed(i) /\ Emitted(i)
        /\ hist[i].sets = 1 /\ hist[i].setRet # NoErr

\* C23: the algorithm set is never empty. Every engine NewServer returns,
\* before and after Close, has at least one algorithm, and NumberOfWorkers
\* never divides by zero.
C23_AlgorithmsNonEmpty ==
    /\ srvState = "built" => algorithms # {}
    /\ ~numWorkers.panic
    /\ srvState # "panic"

\* C25: stale purge. Right after a Get that found the file modified after
\* the cached timestamp, Get has returned (nil, nil) and the file holds no
\* digest attribute in the xsum namespace any more.
C25_StalePurged ==
    \A w \in BagToSet(workers) :
        (w.pc = "hash" /\ hist[w.idx].gets = 1 /\ hist[w.idx].opens = 0
                       /\ hist[w.idx].getRet.stale) =>
            /\ hist[w.idx].getRet.sums = NilSums
            /\ hist[w.idx].getRet.err = NoErr
            /\ \A a \in AllAlgs : XGet(xsumNS, xattrs[w.filename], <<a>>) = NoVal

\* C24: cache-hit soundness across runs. In every run, every digest that a
\* cache-hit Result delivers for a requested algorithm is the digest of the
\* file's current content.
C24_HitSoundAcrossRuns ==
    \A k \in 1..Len(delivered) :
        LET i == delivered[k].idx IN
        GotHit(i) =>
            \A a \in algorithms :
                delivered[k].sums.m[a] = RefDigest(a, content[filenames[i]])

\* C26: a modification racing with a job. When a file was modified after the
\* worker read it and the worker's Set has stored the digests of what it
\* read, a later Get does not accept that entry: it returns none of the
\* digests computed from the older content.
C26_RacedEntryRejected ==
    \A w \in BagToSet(workers) :
        ( /\ w.pc = "send"
          /\ Hashed(w.idx)
          /\ hist[w.idx].sets = 1
          /\ hist[w.idx].setRet = NoErr
          /\ content[w.filename] # hist[w.idx].read ) =>
            \A a \in algorithms :
                CacheAnswer(w.filename).sums.m[a] # RefDigest(a, hist[w.idx].read)

====
